---- MODULE Spec2Model ----
(***************************************************************************)
(* The issue pipeline of tweec: src/src/issue.rs (classification, ordering *)
(* and per-issue rendering), src/src/linter.rs (the lint driver) and       *)
(* src/src/story_files.rs (the view of the code map the renderer reads).   *)
(*                                                                         *)
(* Option<T> is modelled as a sequence: None is <<>>, Some(x) is <<x>>.    *)
(* A Rust String is a TLA+ string where only equality is used (names) and  *)
(* a sequence of one-character strings where the code looks inside it      *)
(* (the contents of a link).                                               *)
(***************************************************************************)
EXTENDS Integers, Sequences, FiniteSets, TLC

VARIABLES
    story_result,   \* lint's parse result: Ok(Story) or Err(ContextErrorList)
    warnings,       \* lint's warning list, as taken from the parser output
    config,         \* the Config: allowed, denied, compact
    pc,             \* position inside lint
    issues,         \* the list returned by filter_and_sort_issues
    is_err,         \* the flag returned by filter_and_sort_issues
    idx,            \* index of the next issue of the render loop
    stdout,         \* what has been written to the stream, in order
    color,          \* the stream's current color state
    link_target,    \* report's local `target` of the latest whitespace-in-link repair
    report_help,    \* report's local `help_message` of the latest issue reported
    io_errors,      \* how many operations on the stream have failed
    call,           \* a function called on its own: its arguments and what it returned
    ret             \* what lint returned to its caller

vars == <<story_result, warnings, config, pc, issues, is_err, idx, stdout, color,
          link_target, report_help, io_errors, call, ret>>

----------------------------------------------------------------------------
(* Bounds of the model *)

MaxPolicy == 2      \* longest allowed / denied list
MaxWarnings == 2    \* longest warning list of the classification and lint inputs
MaxErrors == 2      \* longest parser error list
MaxSorted == 3      \* longest warning list of the ordering inputs
MaxLine == 2        \* largest start line of a context
MaxColumn == 2      \* largest start column of a context
MaxContents == 4    \* longest text between the brackets of a link
MaxPassages == 3    \* most passages of a story
MaxOffset == 4      \* largest byte offset at which a line of a file starts

----------------------------------------------------------------------------
(* Option and sequence helpers *)

None == <<>>

Some(x) == <<x>>

IsSome(o) == o # <<>>

Unwrap(o) == o[1]

Contains(list, x) == \E i \in 1..Len(list) : list[i] = x

RECURSIVE SeqsUpTo(_, _)
SeqsUpTo(S, n) ==
    IF n = 0 THEN {<<>>}
    ELSE LET shorter == SeqsUpTo(S, n - 1)
         IN shorter \cup {Append(s, x) : s \in {t \in shorter : Len(t) = n - 1}, x \in S}

Count(list, P(_)) == Cardinality({i \in 1..Len(list) : P(list[i])})

----------------------------------------------------------------------------
(* Data: contexts, warnings, errors, issues *)

Context(file_name, line, column, contents) ==
    [file_name |-> file_name, line |-> line, column |-> column, contents |-> contents]

Warning(name, context, referent, dead) ==
    [name |-> name, context |-> context, referent |-> referent, dead |-> dead]

Error(name, context) == [name |-> name, context |-> context]

IssueError(e) == [tag |-> "Error", error |-> e]

IssueWarning(w, denied) == [tag |-> "Warning", warning |-> w, denied |-> denied]

StoryOk(code_map, passages) ==
    [tag |-> "Ok", code_map |-> code_map, passages |-> passages]

StoryErr(errors, code_map) == [tag |-> "Err", errors |-> errors, code_map |-> code_map]

IssueContext(issue) ==
    IF issue.tag = "Error" THEN issue.error.context ELSE issue.warning.context

----------------------------------------------------------------------------
(* filter_and_sort_issues: the allow/deny policy *)

allow_all(cfg) == Contains(cfg.allowed, "all")

deny_all(cfg) == Contains(cfg.denied, "all")

\* A plausible slip: a name that is also denied is not suppressed (deny wins).
IsAllowedUnlessDenied(cfg, name) ==
    /\ allow_all(cfg) \/ Contains(cfg.allowed, name)
    /\ ~(deny_all(cfg) \/ Contains(cfg.denied, name))

\* issue.rs:169, the condition of the `continue`
IsAllowed(cfg, name) == allow_all(cfg) \/ Contains(cfg.allowed, name)

\* A plausible slip: "all" is not recognised in the denied list.
IsDeniedByNameOnly(cfg, name) == Contains(cfg.denied, name)

\* issue.rs:172
IsDenied(cfg, name) == deny_all(cfg) \/ Contains(cfg.denied, name)

\* A plausible slip: every surviving warning fails the run.
FlagAfterAnyWarning(flag, denied) == TRUE

\* issue.rs:173-175
FlagAfterWarning(flag, denied) == IF denied THEN TRUE ELSE flag

\* issue.rs:167-177, the loop over the drained warnings; acc is (issues, is_err)
RECURSIVE WarningLoop(_, _, _)
WarningLoop(ws, cfg, acc) ==
    IF ws = <<>> THEN acc
    ELSE LET warning == Head(ws)
             name == warning.name
         IN IF IsAllowed(cfg, name)
            THEN WarningLoop(Tail(ws), cfg, acc)
            ELSE LET denied == IsDenied(cfg, name)
                 IN WarningLoop(Tail(ws), cfg,
                        [issues |-> Append(acc.issues, IssueWarning(warning, denied)),
                         is_err |-> FlagAfterWarning(acc.is_err, denied)])

RECURSIVE PushAll(_, _)
PushAll(list, errors) ==
    IF errors = <<>> THEN list
    ELSE PushAll(Append(list, IssueError(Head(errors))), Tail(errors))

\* A plausible slip: only the first parse error is reported.
PushFirstError(acc, result) ==
    IF result.tag = "Err"
    THEN [issues |-> PushAll(acc.issues, SubSeq(result.errors, 1, 1)), is_err |-> TRUE]
    ELSE acc

\* A plausible slip: the errors are pushed but the flag is left as the warnings set it.
PushErrorsKeepFlag(acc, result) ==
    IF result.tag = "Err"
    THEN [issues |-> PushAll(acc.issues, result.errors), is_err |-> acc.is_err]
    ELSE acc

\* issue.rs:179-184
PushErrors(acc, result) ==
    IF result.tag = "Err"
    THEN [issues |-> PushAll(acc.issues, result.errors), is_err |-> TRUE]
    ELSE acc

\* The issue list and flag as they stand at issue.rs:185, before the sort
Unsorted(result, ws, cfg) ==
    PushErrors(WarningLoop(ws, cfg, [issues |-> <<>>, is_err |-> FALSE]), result)

----------------------------------------------------------------------------
(* filter_and_sort_issues: the ordering *)

\* Ord::cmp on two integers
CmpInt(a, b) == IF a < b THEN "Less" ELSE IF a = b THEN "Equal" ELSE "Greater"

\* A plausible slip: the file name is not looked at, positions are always compared.
CompareIgnoringFileName(left, right) ==
    LET l == IssueContext(left)
        r == IssueContext(right)
    IN IF l = None THEN "Less"
       ELSE IF r = None THEN "Greater"
       ELSE IF Unwrap(l).line = Unwrap(r).line
            THEN CmpInt(Unwrap(l).column, Unwrap(r).column)
            ELSE CmpInt(Unwrap(l).line, Unwrap(r).line)

\* A plausible slip: the column is compared before the line.
CompareColumnFirst(left, right) ==
    LET l == IssueContext(left)
        r == IssueContext(right)
    IN IF l = None THEN "Less"
       ELSE IF r = None THEN "Greater"
       ELSE LET lctx == Unwrap(l)
                rctx == Unwrap(r)
            IN IF lctx.file_name = None THEN "Less"
               ELSE IF rctx.file_name = None THEN "Greater"
               ELSE IF lctx.column = rctx.column
                    THEN CmpInt(lctx.line, rctx.line)
                    ELSE CmpInt(lctx.column, rctx.column)

\* issue.rs:186-215, the closure given to sort_by
\* A plausible slip: a total order, where two issues that both lack a context
\* or both lack a file name are Equal.
CompareTotalOrder(left, right) ==
    LET l == IssueContext(left)
        r == IssueContext(right)
    IN IF l = None THEN (IF r = None THEN "Equal" ELSE "Less")
       ELSE IF r = None THEN "Greater"
       ELSE LET lctx == Unwrap(l)
                rctx == Unwrap(r)
            IN IF lctx.file_name = None
               THEN (IF rctx.file_name = None THEN "Equal" ELSE "Less")
               ELSE IF rctx.file_name = None THEN "Greater"
               ELSE IF lctx.line = rctx.line
                    THEN CmpInt(lctx.column, rctx.column)
                    ELSE CmpInt(lctx.line, rctx.line)

Compare(left, right) ==
    LET l == IssueContext(left)
        r == IssueContext(right)
    IN IF l = None THEN "Less"
       ELSE IF r = None THEN "Greater"
       ELSE LET lctx == Unwrap(l)
                rctx == Unwrap(r)
            IN IF lctx.file_name = None THEN "Less"
               ELSE IF rctx.file_name = None THEN "Greater"
               ELSE IF lctx.line = rctx.line
                    THEN CmpInt(lctx.column, rctx.column)
                    ELSE CmpInt(lctx.line, rctx.line)

\* sort_by's is_less: |a, b| compare(a, b) == Less
IsLess(a, b) == Compare(a, b) = "Less"

(* slice::sort_by is the standard library's stable sort. The comparator is not *)
(* a total order (two contextless issues are each Less than the other), and    *)
(* for such a comparator the library leaves the resulting order unspecified,   *)
(* so the order depends on the toolchain the program was built with. On        *)
(* slices of at most 20 elements every release of the library runs an          *)
(* insertion sort: up to 1.80 from the back of the slice (insert_head into the *)
(* sorted tail), from 1.81 on from the front (insert_tail into the sorted      *)
(* head). Both are modelled; the lists of this model are far shorter than 20.  *)
SortImpls == {"insert_head", "insert_tail"}

\* the number of leading elements y of t with is_less(y, x)
RECURSIVE LeadingLess(_, _)
LeadingLess(t, x) ==
    IF t = <<>> \/ ~IsLess(Head(t), x) THEN 0 ELSE 1 + LeadingLess(Tail(t), x)

\* A plausible slip: the last element moves left past every element that is not
\* less than it, equal ones included (an unstable insertion).
RECURSIVE TrailingNotLess(_, _)
TrailingNotLess(t, x) ==
    IF t = <<>> \/ IsLess(t[Len(t)], x) THEN 0
    ELSE 1 + TrailingNotLess(SubSeq(t, 1, Len(t) - 1), x)

\* the number of trailing elements y of t with is_less(x, y)
RECURSIVE TrailingGreater(_, _)
TrailingGreater(t, x) ==
    IF t = <<>> \/ ~IsLess(x, t[Len(t)]) THEN 0
    ELSE 1 + TrailingGreater(SubSeq(t, 1, Len(t) - 1), x)

\* insert_head: v[0] moves right past the elements of the sorted tail that are less
InsertHead(v) ==
    LET x == Head(v)
        t == Tail(v)
        k == LeadingLess(t, x)
    IN SubSeq(t, 1, k) \o <<x>> \o SubSeq(t, k + 1, Len(t))

\* A plausible slip: the elements are shifted right but the moved element is not
\* written into the hole, so that a shifted element stays there twice.
InsertTailLeavingHole(v) ==
    LET x == v[Len(v)]
        t == SubSeq(v, 1, Len(v) - 1)
        k == TrailingGreater(t, x)
    IN SubSeq(t, 1, Len(t) - k)
       \o (IF k = 0 THEN <<x>> ELSE <<t[Len(t) - k + 1]>>)
       \o SubSeq(t, Len(t) - k + 1, Len(t))

\* insert_tail: the last element moves left past the elements of the sorted head
\* that it is less than
InsertTail(v) ==
    LET x == v[Len(v)]
        t == SubSeq(v, 1, Len(v) - 1)
        k == TrailingGreater(t, x)
    IN SubSeq(t, 1, Len(t) - k) \o <<x>> \o SubSeq(t, Len(t) - k + 1, Len(t))

\* for i in (0..len - 1).rev() { insert_head(&mut v[i..]) }
RECURSIVE SortInsertHead(_)
SortInsertHead(v) ==
    IF Len(v) < 2 THEN v ELSE InsertHead(<<Head(v)>> \o SortInsertHead(Tail(v)))

\* for i in 1..len { insert_tail(&mut v[..=i]) }
RECURSIVE SortInsertTail(_)
SortInsertTail(v) ==
    IF Len(v) < 2 THEN v
    ELSE InsertTail(Append(SortInsertTail(SubSeq(v, 1, Len(v) - 1)), v[Len(v)]))

sort_by(v, impl) == IF impl = "insert_head" THEN SortInsertHead(v) ELSE SortInsertTail(v)

\* issue.rs:156-218: the pair (issues, is_err) the function returns
filter_and_sort_issues(result, ws, cfg, impl) ==
    LET acc == Unsorted(result, ws, cfg)
    IN [issues |-> sort_by(acc.issues, impl), is_err |-> acc.is_err]

----------------------------------------------------------------------------
(* Strings the code looks inside: sequences of one-character strings *)

IsPrefix(p, s) == Len(p) <= Len(s) /\ SubSeq(s, 1, Len(p)) = p

\* str::contains
StrContains(s, p) == \E i \in 1..(Len(s) + 1) : IsPrefix(p, SubSeq(s, i, Len(s)))

\* index of the first match of p in s; called only when s contains p
FindFirst(s, p) ==
    CHOOSE i \in 1..(Len(s) + 1) :
        /\ IsPrefix(p, SubSeq(s, i, Len(s)))
        /\ \A j \in 1..(i - 1) : ~IsPrefix(p, SubSeq(s, j, Len(s)))

\* s.split(p).next(): the piece before the first match, or all of s
SplitFirst(s, p) == IF StrContains(s, p) THEN SubSeq(s, 1, FindFirst(s, p) - 1) ELSE s

\* what split(p) iterates over once its first piece is taken; called only when
\* s contains p
AfterFirst(s, p) == SubSeq(s, FindFirst(s, p) + Len(p), Len(s))

\* the second item of s.split(p): the piece between the first match and the next
SplitSecond(s, p) == SplitFirst(AfterFirst(s, p), p)

IsWhitespace(c) == c = " "

RECURSIVE TrimStart(_)
TrimStart(s) == IF s # <<>> /\ IsWhitespace(Head(s)) THEN TrimStart(Tail(s)) ELSE s

RECURSIVE TrimEnd(_)
TrimEnd(s) ==
    IF s # <<>> /\ IsWhitespace(s[Len(s)]) THEN TrimEnd(SubSeq(s, 1, Len(s) - 1)) ELSE s

\* str::trim
Trim(s) == TrimEnd(TrimStart(s))

\* str::replace with an empty pattern: `to` goes before every character and at the end
RECURSIVE Interleave(_, _)
Interleave(s, to) == IF s = <<>> THEN to ELSE to \o <<Head(s)>> \o Interleave(Tail(s), to)

\* str::replace with a non-empty pattern: every non-overlapping match, left to right
RECURSIVE ReplaceAll(_, _, _)
ReplaceAll(s, from, to) ==
    IF Len(s) < Len(from) THEN s
    ELSE IF IsPrefix(from, s)
         THEN to \o ReplaceAll(SubSeq(s, Len(from) + 1, Len(s)), from, to)
         ELSE <<Head(s)>> \o ReplaceAll(Tail(s), from, to)

\* A plausible slip: replacen(.., 1), only the first match is replaced.
ReplaceFirstOnly(s, from, to) ==
    IF StrContains(s, from)
    THEN SubSeq(s, 1, FindFirst(s, from) - 1) \o to \o AfterFirst(s, from)
    ELSE s

\* str::replace
Replace(s, from, to) == IF from = <<>> THEN Interleave(s, to) ELSE ReplaceAll(s, from, to)

----------------------------------------------------------------------------
(* StoryFiles and the suggestions of Issue::report *)

\* story_files.rs:17-33
StoryFilesNew(result) ==
    [code_map |-> result.code_map,
     passage_names |-> IF result.tag = "Ok" THEN Some(result.passages) ELSE None]

\* CodeMap::lookup_id: the id of a file is its index in the code map
lookup_id(code_map, file_name) ==
    IF Contains(code_map, file_name)
    THEN Some(CHOOSE i \in 1..Len(code_map) : code_map[i] = file_name)
    ELSE None

\* strsim::jaro_winkler in thousandths, on the names of this model:
\*   jaro("Satrt", "Start") = (5/5 + 5/5 + 4/5)/3 with one transposition, and one
\*     common prefix character: 0.94;
\*   jaro("Satrt", "Strat") = jaro("Satrt", "Stort") = (4/5 + 4/5 + 4/4)/3, and one
\*     common prefix character: 0.88;
\*   jaro("Satrt", "at") = (2/5 + 2/2 + 2/2)/3 = 0.8, no common prefix (in f64
\*     arithmetic 0.7999999999999999, which like 0.8 is not above the 0.8 of
\*     issue.rs:151);
\*   "Satrt" and "End" share no character: 0.
jaro_winkler(v, pv) ==
    IF v = pv THEN 1000
    ELSE IF {v, pv} = {"Satrt", "Start"} THEN 940
    ELSE IF {v, pv} \in {{"Satrt", "Strat"}, {"Satrt", "Stort"}} THEN 880
    ELSE IF {v, pv} = {"Satrt", "at"} THEN 800
    ELSE 0

\* issue.rs:153: insertion of a candidate into a list sorted by ascending
\* confidence, after the candidates of equal confidence (the sort is stable)
RECURSIVE InsertCandidate(_, _)
InsertCandidate(sorted, c) ==
    IF sorted = <<>> THEN <<c>>
    ELSE IF c.confidence < Head(sorted).confidence THEN <<c>> \o sorted
    ELSE <<Head(sorted)>> \o InsertCandidate(Tail(sorted), c)

RECURSIVE SortCandidates(_)
SortCandidates(cs) ==
    IF cs = <<>> THEN <<>>
    ELSE InsertCandidate(SortCandidates(SubSeq(cs, 1, Len(cs) - 1)), cs[Len(cs)])

\* A plausible slip: >= for the > of issue.rs:151.
AtOrAboveThreshold(c) == c.confidence >= 800

\* issue.rs:151
AboveThreshold(c) == c.confidence > 800

\* issue.rs:143-155
did_you_mean(v, possible_values) ==
    LET scored == [i \in 1..Len(possible_values) |->
                      [confidence |-> jaro_winkler(v, possible_values[i]),
                       name |-> possible_values[i]]]
        candidates == SortCandidates(SelectSeq(scored, AboveThreshold))
    IN [i \in 1..Len(candidates) |-> candidates[i].name]

\* issue.rs:78-84
DeadLinkHelp(w, story_files) ==
    IF story_files.passage_names = None THEN None
    ELSE LET found == did_you_mean(w.dead, Unwrap(story_files.passage_names))
         IN IF found = <<>> THEN None
            ELSE Some([text |-> "Found passage with similar name", name |-> found[Len(found)],
                       link |-> <<>>, suggested |-> <<>>])

\* issue.rs:90
LinkContents(link) == SubSeq(link, 3, Len(link) - 2)

\* issue.rs:93-105
LinkTarget(contents) ==
    IF StrContains(contents, <<"|">>) THEN SplitSecond(contents, <<"|">>)
    ELSE IF StrContains(contents, <<"<", "-">>) THEN SplitFirst(contents, <<"<", "-">>)
    ELSE IF StrContains(contents, <<"-", ">">>) THEN SplitSecond(contents, <<"-", ">">>)
    ELSE contents

\* issue.rs:85-111
WhitespaceHelp(w) ==
    IF w.context = None THEN None
    ELSE LET link == Unwrap(w.context).contents
             target == LinkTarget(LinkContents(link))
             trimmed == Trim(target)
             suggested == Replace(link, target, trimmed)
         IN Some([text |-> "Try replacing", name |-> "", link |-> link,
                  suggested |-> suggested])

\* issue.rs:76-115
help_message(issue, story_files) ==
    IF issue.tag # "Warning" THEN None
    ELSE IF issue.warning.name = "DeadLink" THEN DeadLinkHelp(issue.warning, story_files)
    ELSE IF issue.warning.name = "WhitespaceInLink" THEN WhitespaceHelp(issue.warning)
    ELSE None

----------------------------------------------------------------------------
(* Issue::report: the diagnostic of rich mode *)

get_name(issue) == IF issue.tag = "Error" THEN issue.error.name ELSE issue.warning.name

\* issue.rs:27-32; the text is the Display form of the kind, which the parser
\* library derives from the kind alone
get_message(issue) == <<"Display", get_name(issue)>>

\* issue.rs:34-39
get_referent(issue) == IF issue.tag = "Error" THEN None ELSE issue.warning.referent

\* A plausible slip: a file name the code map does not hold falls back to the
\* first file (unwrap_or) instead of giving None.
ResolveContextOrFirstFile(context, story_files) ==
    IF context = None THEN None
    ELSE IF Unwrap(context).file_name = None THEN None
    ELSE LET id == lookup_id(story_files.code_map, Unwrap(Unwrap(context).file_name))
         IN Some([file_id |-> IF id = None THEN 1 ELSE Unwrap(id),
                  range |-> <<Unwrap(context).line, Unwrap(context).column>>])

\* the part shared by issue.rs:45-51 and issue.rs:59-65; the byte range of a
\* context is stood for by its start position
ResolveContext(context, story_files) ==
    IF context = None THEN None
    ELSE IF Unwrap(context).file_name = None THEN None
    ELSE LET id == lookup_id(story_files.code_map, Unwrap(Unwrap(context).file_name))
         IN IF id = None THEN None
            ELSE Some([file_id |-> Unwrap(id),
                       range |-> <<Unwrap(context).line, Unwrap(context).column>>])

\* A plausible slip: the referent's file name is taken as resolved without asking
\* the code map.
ReferentWithoutLookup(issue, story_files) ==
    LET context == get_referent(issue)
    IN IF context = None \/ Unwrap(context).file_name = None THEN None
       ELSE Some([file_id |-> 0,
                  range |-> <<Unwrap(context).line, Unwrap(context).column>>])

\* issue.rs:41-52
get_referent_file_id_and_range(issue, story_files) ==
    ResolveContext(get_referent(issue), story_files)

\* A plausible slip: a file name is taken as resolved without asking the code map.
FileIdWithoutLookup(issue, story_files) ==
    LET context == IssueContext(issue)
    IN IF context = None \/ Unwrap(context).file_name = None THEN None
       ELSE Some([file_id |-> 0,
                  range |-> <<Unwrap(context).line, Unwrap(context).column>>])

\* issue.rs:54-66
get_file_id_and_range(issue, story_files) ==
    ResolveContext(IssueContext(issue), story_files)

\* A plausible slip: a denied warning keeps the warning severity.
SeverityIgnoringDenied(issue) == IF issue.tag = "Error" THEN "error" ELSE "warning"

\* issue.rs:69-72
DiagnosticSeverity(issue) ==
    IF issue.tag = "Error" \/ issue.denied THEN "error" ELSE "warning"

Label(style, at, message) ==
    [style |-> style, file_id |-> at.file_id, range |-> at.range, message |-> message]

\* issue.rs:68-140
report(issue, story_files) ==
    LET diagnostic == [severity |-> DiagnosticSeverity(issue),
                       message |-> get_message(issue),
                       code |-> get_name(issue),
                       labels |-> <<>>,
                       notes |-> <<>>]
        help == help_message(issue, story_files)
        primary == get_file_id_and_range(issue, story_files)
        secondary == get_referent_file_id_and_range(issue, story_files)
    IN IF primary = None THEN diagnostic
       ELSE [diagnostic EXCEPT
                !.labels = <<Label("primary", Unwrap(primary), "")>> \o
                           (IF secondary = None THEN <<>>
                            ELSE <<Label("secondary", Unwrap(secondary),
                                         "Previously defined here. Duplicate discarded.")>>),
                !.notes = IF help = None THEN <<>> ELSE <<Unwrap(help)>>]

----------------------------------------------------------------------------
(* The output stream: what was written, and the color state *)

Event(op, c, text, issue, diagnostic) ==
    [op |-> op, color |-> c, text |-> text, issue |-> issue, diagnostic |-> diagnostic]

SetColor(c) == Event("set_color", c, "", None, None)

Write(text) == Event("write", "", text, None, None)

Reset == Event("reset", "", "", None, None)

WriteLine(issue) == Event("writeln", "", "", Some(issue), None)

Emit(diagnostic) == Event("emit", "", "", None, Some(diagnostic))

DebugPrint == Event("println", "", "code_map", None, None)

FlushEvent == Event("flush", "", "", None, None)

\* the color state the stream is in after an operation
ColorAfter(c, event) ==
    IF event.op = "set_color" THEN event.color
    ELSE IF event.op \in {"reset", "emit"} THEN "Reset"
    ELSE c

RECURSIVE ColorAfterAll(_, _)
ColorAfterAll(c, events) ==
    IF events = <<>> THEN c ELSE ColorAfterAll(ColorAfter(c, Head(events)), Tail(events))

\* issue.rs:221-230, the label
PrintKind(issue) == IF issue.tag = "Error" \/ issue.denied THEN "Error" ELSE "Warning"

\* issue.rs:221-230, the color
PrintColor(issue) == IF issue.tag = "Error" \/ issue.denied THEN "Red" ELSE "Yellow"

\* A plausible slip: a second filter downstream, a warning that is not denied is
\* not printed.
PrintIssueUnlessPlainWarning(issue) ==
    IF issue.tag = "Warning" /\ ~issue.denied THEN <<>>
    ELSE <<SetColor(PrintColor(issue)), Write(PrintKind(issue)), Reset, WriteLine(issue)>>

\* issue.rs:220-242: the stream operations of print_issue, in order; each ends in `?`
print_issue(issue) ==
    <<SetColor(PrintColor(issue)), Write(PrintKind(issue)), Reset, WriteLine(issue)>>

\* the operations done when the one numbered `fail` fails (all of them when fail
\* is 0: no operation fails)
Performed(ops, fail) == IF fail = 0 THEN ops ELSE SubSeq(ops, 1, fail - 1)

Failed(fail) == IF fail = 0 THEN 0 ELSE 1

\* A plausible slip: the io::Result is dropped (`let _ =`, `.ok()`) and lint goes on.
TryIgnoringFailure(fail, continue, stop) == continue

\* the `?` of linter.rs:34, linter.rs:40 and linter.rs:45: lint goes on after Ok
\* and returns the error to its caller after Err
Try(fail, continue, stop) == IF fail = 0 THEN continue ELSE stop

----------------------------------------------------------------------------
(* lint, step by step *)

\* linter.rs:47-51; story_result.ok().unwrap() panics on a failed parse
LintResult(flag, result) ==
    IF flag THEN "Err(Failed due to previous errors)"
    ELSE IF result.tag = "Ok" THEN "Ok(Story)"
    ELSE "panic"

\* linter.rs:26-30: StoryFiles::new (which prints the code map of a failed parse)
\* and filter_and_sort_issues
Classify ==
    /\ pc = "lint"
    /\ \E impl \in SortImpls :
          LET r == filter_and_sort_issues(story_result, warnings, config, impl)
          IN /\ issues' = r.issues
             /\ is_err' = r.is_err
    /\ stdout' = IF story_result.tag = "Err" THEN Append(stdout, DebugPrint) ELSE stdout
    /\ idx' = 1
    /\ pc' = "render"
    /\ UNCHANGED <<story_result, warnings, config, color, link_target, report_help, io_errors,
                   call, ret>>

\* linter.rs:33-35: one turn of the compact loop; operation number `fail` of
\* print_issue fails (0: none does) and `?` returns the error to lint's caller
PrintIssue ==
    /\ pc = "render"
    /\ config.compact
    /\ idx <= Len(issues)
    /\ \E fail \in 0..Len(print_issue(issues[idx])) :
          LET ops == Performed(print_issue(issues[idx]), fail)
          IN /\ stdout' = stdout \o ops
             /\ color' = ColorAfterAll(color, ops)
             /\ io_errors' = io_errors + Failed(fail)
             /\ Try(fail,
                    idx' = idx + 1 /\ UNCHANGED <<pc, ret>>,
                    pc' = "done" /\ ret' = "Err(io)" /\ UNCHANGED idx)
    /\ UNCHANGED <<story_result, warnings, config, issues, is_err, link_target,
                   report_help, call>>

\* report's local `target`, when the issue is a whitespace-in-link warning with a context
ReportTarget(issue) ==
    IF issue.tag = "Warning" /\ issue.warning.name = "WhitespaceInLink"
       /\ issue.warning.context # None
    THEN Some(LinkTarget(LinkContents(Unwrap(issue.warning.context).contents)))
    ELSE None

\* linter.rs:38-41: one turn of the rich loop; term::emit writes the diagnostic
\* or fails, and leaves the color reset after the last styled text
EmitIssue ==
    /\ pc = "render"
    /\ ~config.compact
    /\ idx <= Len(issues)
    /\ link_target' = ReportTarget(issues[idx])
    /\ report_help' = help_message(issues[idx], StoryFilesNew(story_result))
    /\ \E fail \in 0..1 :
          LET diagnostic == report(issues[idx], StoryFilesNew(story_result))
              ops == Performed(<<Emit(diagnostic)>>, fail)
          IN /\ stdout' = stdout \o ops
             /\ color' = ColorAfterAll(color, ops)
             /\ io_errors' = io_errors + Failed(fail)
             /\ Try(fail,
                    idx' = idx + 1 /\ UNCHANGED <<pc, ret>>,
                    pc' = "done" /\ ret' = "Err(io)" /\ UNCHANGED idx)
    /\ UNCHANGED <<story_result, warnings, config, issues, is_err, call>>

\* linter.rs:45
Flush ==
    /\ pc = "render"
    /\ idx > Len(issues)
    /\ \E fail \in 0..1 :
          /\ stdout' = stdout \o Performed(<<FlushEvent>>, fail)
          /\ io_errors' = io_errors + Failed(fail)
          /\ Try(fail,
                 pc' = "return" /\ UNCHANGED ret,
                 pc' = "done" /\ ret' = "Err(io)")
    /\ UNCHANGED <<story_result, warnings, config, issues, is_err, idx, color, link_target,
                   report_help, call>>

\* linter.rs:47-51
Return ==
    /\ pc = "return"
    /\ ret' = LintResult(is_err, story_result)
    /\ pc' = "done"
    /\ UNCHANGED <<story_result, warnings, config, issues, is_err, idx, stdout, color,
                   link_target, report_help, io_errors, call>>

\* no function is called on its own
NoCall == [fn |-> "none"]

\* the closure of issue.rs:195-214 called on a pair of issues, in both orders
CallCompare ==
    /\ call.fn = "compare"
    /\ call.returned = None
    /\ call' = [call EXCEPT !.returned = Some(<<Compare(call.left, call.right),
                                                 Compare(call.right, call.left)>>)]
    /\ UNCHANGED <<story_result, warnings, config, pc, issues, is_err, idx, stdout, color,
                   link_target, report_help, io_errors, ret>>

\* CodeMap::line_starts: the line starts of a file, None for an id the code map
\* does not hold; `lines` holds one list of line starts per file, ids count from 1
line_starts(lines, id) == IF id \in 1..Len(lines) THEN Some(lines[id]) ELSE None

\* slice::binary_search on bytes[lo..hi] (indices from 0): Ok(index) of an element
\* equal to x, or Err(index) where x would be inserted
RECURSIVE Bisect(_, _, _, _)
Bisect(bytes, x, lo, hi) ==
    IF lo >= hi THEN [tag |-> "Err", index |-> lo]
    ELSE LET mid == lo + (hi - lo) \div 2
         IN IF bytes[mid + 1] = x THEN [tag |-> "Ok", index |-> mid]
            ELSE IF bytes[mid + 1] < x THEN Bisect(bytes, x, mid + 1, hi)
            ELSE Bisect(bytes, x, lo, mid)

binary_search(bytes, x) == Bisect(bytes, x, 0, Len(bytes))

\* A plausible slip: Err(idx) is taken as it is, without the step back to the
\* preceding line.
LineIndexWithoutStepBack(lines, id, byte_index) ==
    IF line_starts(lines, id) = None THEN {[panicked |-> FALSE, value |-> None]}
    ELSE {[panicked |-> FALSE,
           value |-> Some(binary_search(Unwrap(line_starts(lines, id)), byte_index).index)]}

\* story_files.rs:51-58: the outcomes of line_index. `idx - 1` on usize with
\* idx = 0 panics in a build with overflow checks and wraps to usize::MAX in one
\* without; the wrapped value is written -1 here.
line_index(lines, id, byte_index) ==
    IF line_starts(lines, id) = None THEN {[panicked |-> FALSE, value |-> None]}
    ELSE LET found == binary_search(Unwrap(line_starts(lines, id)), byte_index)
         IN IF found.tag = "Ok" THEN {[panicked |-> FALSE, value |-> Some(found.index)]}
            ELSE IF found.index = 0
                 THEN {[panicked |-> TRUE, value |-> None],
                       [panicked |-> FALSE, value |-> Some(-1)]}
                 ELSE {[panicked |-> FALSE, value |-> Some(found.index - 1)]}

\* story_files.rs:51-58 called on its own
CallLineIndex ==
    /\ call.fn = "line_index"
    /\ call.returned = None
    /\ \E outcome \in line_index(call.lines, call.id, call.byte_index) :
          call' = [call EXCEPT !.returned = Some(outcome)]
    /\ UNCHANGED <<story_result, warnings, config, pc, issues, is_err, idx, stdout, color,
                   link_target, report_help, io_errors, ret>>

Next ==
    \/ Classify
    \/ PrintIssue
    \/ EmitIssue
    \/ Flush
    \/ Return

----------------------------------------------------------------------------
(* Inputs *)

Known == "a.twee"       \* a file of the code map

Other == "b.twee"       \* a second file of the code map

Missing == "c.twee"     \* a file name the code map does not hold

CodeMap == <<Known, Other>>

Passages == <<"Start", "End">>

At(file, line, column) == Some(Context(Some(file), line, column, <<>>))

NoFileAt(line, column) == Some(Context(None, line, column, <<>>))

\* the context of a link: its contents are the text of the link, brackets included
LinkAt(file_name, line, column, inner) ==
    Some(Context(file_name, line, column, <<"[", "[">> \o inner \o <<"]", "]">>))

Plain(name, context) == Warning(name, context, None, "")

DeadLink(context) == Warning("DeadLink", context, None, "Satrt")

\* a parse fails with at least one error: the parser returns Err only when it has
\* recorded an error
Failures(errors, n) == {StoryErr(e, CodeMap) : e \in SeqsUpTo(errors, n) \ {<<>>}}

\* the state in which lint is entered: run has set the stream's color to green
\* (tweec.rs:26-29)
Entered ==
    /\ pc = "lint"
    /\ issues = <<>>
    /\ is_err = FALSE
    /\ idx = 1
    /\ stdout = <<>>
    /\ color = "Green"
    /\ link_target = None
    /\ report_help = None
    /\ io_errors = 0
    /\ ret = "pending"

(* Spec: lint as a whole, on a mix of warning kinds, contexts and policies *)

LintWarnings ==
    {DeadLink(None), DeadLink(At(Known, 1, 2)),
     Warning("WhitespaceInLink", LinkAt(None, 1, 1, <<" ", "a">>), None, ""),
     Warning("WhitespaceInLink", LinkAt(Some(Known), 2, 1, <<"a", "|", " ", "b">>), None, ""),
     Warning("WhitespaceInLink", LinkAt(Some(Missing), 1, 1, <<"a", " ">>), None, ""),
     Warning("DuplicateStoryTitle", At(Known, 1, 1), At(Other, 2, 2), ""),
     Warning("DuplicateStoryTitle", None, At(Known, 1, 1), ""),
     Warning("DuplicateStoryTitle", At(Other, 2, 1), At(Missing, 1, 1), "")}

LintErrors == {Error("BadInputPath", None)}

Init ==
    /\ Entered
    /\ call = NoCall
    /\ warnings \in SeqsUpTo(LintWarnings, MaxWarnings)
    /\ story_result \in {StoryOk(CodeMap, Passages)} \cup Failures(LintErrors, MaxErrors)
    /\ config \in [allowed : {<<>>, <<"WhitespaceInLink">>},
                   denied : {<<>>, <<"DeadLink">>, <<"all">>},
                   compact : BOOLEAN]

Spec == Init /\ [][Next]_vars

(* SpecClassify: filter_and_sort_issues on every policy over the names *)

PolicyNames == {"all", "DeadLink"}

ClassifyWarnings ==
    {DeadLink(None), Plain("WhitespaceInLink", LinkAt(Some(Known), 1, 1, <<" ", "a">>))}

ClassifyErrors == {Error("BadInputPath", None), Error("EmptyName", At(Known, 1, 1))}

InitClassify ==
    /\ Entered
    /\ call = NoCall
    /\ warnings \in SeqsUpTo(ClassifyWarnings, MaxWarnings)
    /\ story_result \in {StoryOk(CodeMap, Passages)} \cup Failures(ClassifyErrors, MaxErrors)
    /\ config \in [allowed : SeqsUpTo(PolicyNames, MaxPolicy),
                   denied : SeqsUpTo(PolicyNames, MaxPolicy),
                   compact : {TRUE}]

SpecClassify == InitClassify /\ [][Classify]_vars

(* SpecSort: filter_and_sort_issues on every mix of contexts *)

SortContexts ==
    {None, NoFileAt(1, 1), NoFileAt(MaxLine, 1)}
    \cup {At(Known, line, column) : line \in 1..MaxLine, column \in 1..MaxColumn}
    \cup {At(Other, line, 1) : line \in 1..MaxLine}

SortErrors == {Error("EmptyName", At(Known, 1, 1))}

InitSort ==
    /\ Entered
    /\ call = NoCall
    /\ warnings \in SeqsUpTo({Plain("DeadLink", c) : c \in SortContexts}, MaxSorted)
    /\ story_result \in {StoryOk(CodeMap, Passages)} \cup Failures(SortErrors, 1)
    /\ config = [allowed |-> <<>>, denied |-> <<>>, compact |-> TRUE]

SpecSort == InitSort /\ [][Classify]_vars

(* SpecLink: lint on one whitespace-in-link warning, for every text of the link *)

LinkChars == {"a", " ", "|", "<", "-", ">"}

InitLink ==
    /\ Entered
    /\ call = NoCall
    /\ \E inner \in SeqsUpTo(LinkChars, MaxContents) :
          warnings = <<Plain("WhitespaceInLink", LinkAt(Some(Known), 1, 1, inner))>>
    /\ story_result = StoryOk(CodeMap, Passages)
    /\ config \in [allowed : {<<>>}, denied : {<<>>, <<"all">>}, compact : BOOLEAN]

SpecLink == InitLink /\ [][Next]_vars

(* SpecDeadLink: lint on one dead link, for every set of passage names *)

PassageNames == {"Start", "Strat", "Stort", "at", "End"}

\* the keys of the story's passage map, in the order the map iterates them
PassageLists ==
    {ps \in SeqsUpTo(PassageNames, MaxPassages) :
        \A i, j \in 1..Len(ps) : i # j => ps[i] # ps[j]}

InitDeadLink ==
    /\ Entered
    /\ call = NoCall
    /\ warnings \in {<<DeadLink(None)>>, <<DeadLink(At(Known, 1, 1))>>}
    /\ story_result \in {StoryOk(CodeMap, ps) : ps \in PassageLists}
                        \cup Failures(LintErrors, 1)
    /\ config \in [allowed : {<<>>}, denied : {<<>>, <<"DeadLink">>}, compact : BOOLEAN]

SpecDeadLink == InitDeadLink /\ [][Next]_vars

(* SpecCompare: the comparator on every pair of issues *)

CompareIssues ==
    {IssueWarning(Plain("DeadLink", c), FALSE) : c \in SortContexts}
    \cup {IssueError(Error("EmptyName", c)) : c \in {None, NoFileAt(1, 1), At(Known, 1, 1)}}

InitCompare ==
    /\ Entered
    /\ warnings = <<>>
    /\ story_result = StoryOk(CodeMap, Passages)
    /\ config = [allowed |-> <<>>, denied |-> <<>>, compact |-> TRUE]
    /\ \E left, right \in CompareIssues :
          call = [fn |-> "compare", left |-> left, right |-> right, returned |-> None]

SpecCompare == InitCompare /\ [][CallCompare]_vars

(* SpecLineIndex: line_index on every file and byte offset *)

\* the line starts of a file: the first line starts at byte 0, every other line
\* after the line feed that ends the line before it
LineStarts ==
    {starts \in SeqsUpTo(0..MaxOffset, MaxOffset + 1) :
        /\ starts # <<>>
        /\ starts[1] = 0
        /\ \A i \in 1..(Len(starts) - 1) : starts[i] < starts[i + 1]}

InitLineIndex ==
    /\ Entered
    /\ warnings = <<>>
    /\ story_result = StoryOk(CodeMap, Passages)
    /\ config = [allowed |-> <<>>, denied |-> <<>>, compact |-> TRUE]
    /\ \E starts \in LineStarts, id \in 1..2, byte_index \in 0..(MaxOffset + 1) :
          call = [fn |-> "line_index", lines |-> <<starts>>, id |-> id,
                  byte_index |-> byte_index, returned |-> None]

SpecLineIndex == InitLineIndex /\ [][CallLineIndex]_vars

----------------------------------------------------------------------------
(* What the claims speak of, stated on the inputs and outputs alone *)

Classified == pc # "lint"

\* lint went through the render loop and the flush without a failed write
Rendered == pc = "return" \/ (pc = "done" /\ ret # "Err(io)")

IsWarningIssue(issue) == issue.tag = "Warning"

IsErrorIssue(issue) == issue.tag = "Error"

Suppressed(name) == Contains(config.allowed, "all") \/ Contains(config.allowed, name)

Promoted(name) == Contains(config.denied, "all") \/ Contains(config.denied, name)

HasContext(issue) == IssueContext(issue) # None

HasFileName(issue) == HasContext(issue) /\ Unwrap(IssueContext(issue)).file_name # None

StartOf(issue) == <<Unwrap(IssueContext(issue)).line, Unwrap(IssueContext(issue)).column>>

LexLeq(p, q) == p[1] < q[1] \/ (p[1] = q[1] /\ p[2] <= q[2])

\* the primary context names a file that the code map of the parse result holds
Resolves(issue) ==
    /\ HasFileName(issue)
    /\ Contains(story_result.code_map, Unwrap(Unwrap(IssueContext(issue)).file_name))

ExpectedSeverity(issue) ==
    IF IsErrorIssue(issue) THEN "error"
    ELSE IF issue.denied THEN "error" ELSE "warning"

LabelSeverity(text) ==
    IF text = "Error" THEN "error" ELSE IF text = "Warning" THEN "warning" ELSE "none"

\* the events of the stream that the render loop wrote: StoryFiles::new writes
\* one event first when the parse failed
Preamble == IF story_result.tag = "Err" THEN 1 ELSE 0

----------------------------------------------------------------------------
(* C1 *)

\* C1: no returned issue is a warning whose name is in config.allowed, and none
\* is a warning at all when config.allowed contains "all"; and is_err is set
\* only by a failed parse or by a warning that is not suppressed and is denied,
\* also when the suppressed name (or "all") is in config.denied as well.
C1_AllowSuppresses ==
    Classified =>
        /\ \A i \in 1..Len(issues) :
              IsWarningIssue(issues[i]) => ~Suppressed(issues[i].warning.name)
        /\ is_err =>
              \/ story_result.tag = "Err"
              \/ \E j \in 1..Len(warnings) :
                    ~Suppressed(warnings[j].name) /\ Promoted(warnings[j].name)

\* a warning both allowed and denied was classified: nothing returned, no failure
C1_Witness ==
    /\ Classified
    /\ story_result.tag = "Ok"
    /\ \E j \in 1..Len(warnings) :
          /\ Contains(config.allowed, warnings[j].name)
          /\ Contains(config.denied, warnings[j].name)
    /\ Contains(config.denied, "all")
    /\ issues = <<>>
    /\ ~is_err

(* C2 *)

\* C2: after a failed parse is_err is true and every error of the error list is
\* in the returned list as Issue::Error, as often as in the error list, whatever
\* config.allowed and config.denied hold.
C2_ErrorsUnfilterable ==
    (Classified /\ story_result.tag = "Err") =>
        /\ is_err
        /\ \A k \in 1..Len(story_result.errors) :
              LET e == story_result.errors[k]
                  IsE(x) == x = e
                  IsIssueE(x) == x = IssueError(e)
              IN Count(issues, IsIssueE) = Count(story_result.errors, IsE)
        /\ LET IsErr(x) == IsErrorIssue(x)
           IN Count(issues, IsErr) = Len(story_result.errors)

\* a failed parse with two different errors was classified under allow "all"
C2_Witness ==
    /\ Classified
    /\ story_result.tag = "Err"
    /\ Len(story_result.errors) = 2
    /\ story_result.errors[1] # story_result.errors[2]
    /\ Contains(config.allowed, "all")
    /\ Contains(config.denied, "all")
    /\ warnings # <<>>

(* C3 *)

C4_DeniedFlag ==
    Classified =>
        /\ \A i \in 1..Len(issues) :
              IsWarningIssue(issues[i]) =>
                  (issues[i].denied <=> Promoted(issues[i].warning.name))
        /\ (config.allowed = <<>> /\ config.denied = <<"all">> /\ warnings # <<>>) =>
              /\ is_err
              /\ LET IsW(x) == IsWarningIssue(x) /\ x.denied
                 IN Count(issues, IsW) = Len(warnings)

\* deny "all" with nothing allowed, on two warnings of different names
C4_Witness ==
    /\ Classified
    /\ config.allowed = <<>>
    /\ config.denied = <<"all">>
    /\ Len(warnings) = 2
    /\ warnings[1].name # warnings[2].name
    /\ story_result.tag = "Ok"

(* C5 *)

\* C5: when no write fails, lint returns the Story exactly when is_err is false
\* and the failure "Failed due to previous errors" exactly when it is true; the
\* Story is returned only after a successful parse, so the unwrap never panics.
C5_LintResult ==
    (pc = "done" /\ ret # "Err(io)") =>
        /\ ret # "panic"
        /\ (ret = "Ok(Story)") <=> ~is_err
        /\ (ret = "Err(Failed due to previous errors)") <=> is_err
        /\ (ret = "Ok(Story)") => story_result.tag = "Ok"

\* lint returned the Story after rendering warnings that were not denied
C5_Witness ==
    /\ pc = "done"
    /\ ret = "Ok(Story)"
    /\ issues # <<>>
    /\ config.denied # <<>>

(* C6 *)

ExampleA == Plain("DeadLink", None)

ExampleB == Plain("DeadLink", At(Known, 1, 2))

ExampleC == Plain("DeadLink", At(Known, 2, 1))

\* C6: in the returned list no issue with a context comes before an issue
\* without one, and among the issues with a context none with a file name comes
\* before one without a file name; the warnings [C, A, B] (A contextless, B at
\* an earlier position than C) are returned as [A, B, C].
C6_ContextlessFirst ==
    Classified =>
        /\ \A i \in 1..Len(issues) : \A j \in (i + 1)..Len(issues) :
              /\ ~(HasContext(issues[i]) /\ ~HasContext(issues[j]))
              /\ ~(HasFileName(issues[i]) /\ HasContext(issues[j])
                   /\ ~HasFileName(issues[j]))
        /\ (warnings = <<ExampleC, ExampleA, ExampleB>> /\ story_result.tag = "Ok") =>
              issues = <<IssueWarning(ExampleA, FALSE), IssueWarning(ExampleB, FALSE),
                         IssueWarning(ExampleC, FALSE)>>

\* [C, A, B] was sorted
C6_Witness ==
    /\ Classified
    /\ warnings = <<ExampleC, ExampleA, ExampleB>>
    /\ story_result.tag = "Ok"
    /\ Len(issues) = 3

(* C7 *)

\* C7: the returned issues that have a file name are in ascending order of
\* (line, column), whatever their files, and those at one (line, column) are in
\* the order they had before the sort (surviving warnings in input order, then
\* the parse errors in the order of the error list).
C7_PositionOrderStable ==
    Classified =>
        LET before == Unsorted(story_result, warnings, config).issues
        IN /\ \A i \in 1..Len(issues) : \A j \in (i + 1)..Len(issues) :
                 (HasFileName(issues[i]) /\ HasFileName(issues[j])) =>
                     LexLeq(StartOf(issues[i]), StartOf(issues[j]))
           /\ \A line \in 1..MaxLine : \A column \in 1..MaxColumn :
                 LET Here(x) == HasFileName(x) /\ StartOf(x) = <<line, column>>
                 IN SelectSeq(issues, Here) = SelectSeq(before, Here)

\* three issues with file names were sorted: a warning and the parse error meet
\* at (1, 1) in two different files, behind a warning that belongs after them
C7_Witness ==
    /\ Classified
    /\ story_result.tag = "Err"
    /\ Len(warnings) = 2
    /\ warnings[1] = Plain("DeadLink", At(Known, 2, 1))
    /\ warnings[2] = Plain("DeadLink", At(Other, 1, 1))
    /\ issues = <<IssueWarning(warnings[2], FALSE), IssueError(story_result.errors[1]),
                  IssueWarning(warnings[1], FALSE)>>

(* C8 *)

\* C8: every rendered issue is given error severity when it is an Issue::Error
\* or a warning with denied = TRUE and warning severity when it is a warning
\* with denied = FALSE: in compact mode by its label ("Error" / "Warning"), in
\* rich mode by the severity of its diagnostic, both by the same rule.
C8_Severity ==
    \A n \in 1..Len(issues) :
        (pc # "lint" /\ n < idx) =>
            IF config.compact
            THEN LET label == stdout[Preamble + 4 * (n - 1) + 2]
                 IN /\ label.op = "write"
                    /\ LabelSeverity(label.text) = ExpectedSeverity(issues[n])
            ELSE LET emitted == stdout[Preamble + n]
                 IN /\ emitted.op = "emit"
                    /\ Unwrap(emitted.diagnostic).severity = ExpectedSeverity(issues[n])

\* a rich run rendered a denied warning, a warning that is not denied and an error
C8_Witness ==
    /\ Rendered
    /\ ~config.compact
    /\ \E i \in 1..Len(issues) : IsWarningIssue(issues[i]) /\ issues[i].denied
    /\ \E i \in 1..Len(issues) : IsWarningIssue(issues[i]) /\ ~issues[i].denied
    /\ \E i \in 1..Len(issues) : IsErrorIssue(issues[i])

(* C9 *)

IsLine(event) == event.op = "writeln"

IsDiagnostic(event) == event.op = "emit"

HasPrimaryLabel(event) ==
    /\ event.op = "emit"
    /\ \E k \in 1..Len(Unwrap(event.diagnostic).labels) :
          Unwrap(event.diagnostic).labels[k].style = "primary"

\* C9: when no write fails, the compact loop writes exactly one line per issue
\* and the rich loop emits exactly one diagnostic per issue, and the number of
\* diagnostics with a primary label is the number of issues whose primary
\* context has a file name that the code map resolves.
C9_OnePerIssue ==
    Rendered =>
        IF config.compact
        THEN Count(stdout, IsLine) = Len(issues) /\ Count(stdout, IsDiagnostic) = 0
        ELSE /\ Count(stdout, IsDiagnostic) = Len(issues)
             /\ Count(stdout, IsLine) = 0
             /\ Count(stdout, HasPrimaryLabel) = Count(issues, Resolves)

\* a rich run rendered an issue whose file is not in the code map, one without
\* a context and one that resolves
C9_Witness ==
    /\ Rendered
    /\ ~config.compact
    /\ \E i \in 1..Len(issues) : HasFileName(issues[i]) /\ ~Resolves(issues[i])
    /\ \E i \in 1..Len(issues) : ~HasContext(issues[i])
    /\ \E i \in 1..Len(issues) : Resolves(issues[i])

(* C10 *)

Bar == <<"|">>

LeftArrow == <<"<", "-">>

RightArrow == <<"-", ">">>

\* the target as the claim describes it
ClaimedTarget(contents) ==
    IF StrContains(contents, Bar)
    THEN SubSeq(contents, FindFirst(contents, Bar) + 1, Len(contents))
    ELSE IF StrContains(contents, LeftArrow)
    THEN SubSeq(contents, 1, FindFirst(contents, LeftArrow) - 1)
    ELSE IF StrContains(contents, RightArrow)
    THEN SubSeq(contents, FindFirst(contents, RightArrow) + 2, Len(contents))
    ELSE contents

\* C10: the target that report picks inside the contents of a whitespace-in-link
\* warning is everything after the first '|' when there is one; else everything
\* before '<-' when there is one; else everything after '->' when there is one;
\* else the whole contents; for every contents, also with several separators.
C10_TargetPrecedence ==
    link_target # None =>
        Unwrap(link_target) =
            ClaimedTarget(LinkContents(Unwrap(warnings[1].context).contents))

(* C11 *)

\* the text of this run's link (SpecLink has one warning, a link with a context)
TheLink == Unwrap(warnings[1].context).contents

\* the link with its first occurrence of `from` replaced by `to`
FirstReplaced(link, from, to) ==
    IF from # <<>> /\ StrContains(link, from)
    THEN SubSeq(link, 1, FindFirst(link, from) - 1) \o to
         \o SubSeq(link, FindFirst(link, from) + Len(from), Len(link))
    ELSE link

\* the link with every occurrence of `from`, taken from left to right without
\* overlap, replaced by `to`
RECURSIVE EveryReplaced(_, _, _)
EveryReplaced(link, from, to) ==
    IF from # <<>> /\ StrContains(link, from)
    THEN SubSeq(link, 1, FindFirst(link, from) - 1) \o to
         \o EveryReplaced(SubSeq(link, FindFirst(link, from) + Len(from), Len(link)),
                          from, to)
    ELSE link

RepairNote(link, suggested) ==
    [text |-> "Try replacing", name |-> "", link |-> link, suggested |-> suggested]

\* the rich loop has emitted the diagnostic of this run's only warning
LinkReported == ~config.compact /\ pc # "lint" /\ idx > 1 /\ link_target # None

\* C11 as claimed: the note of a whitespace-in-link warning reads "Try replacing
\* <link> with <suggested>", where suggested is the link with only the first
\* occurrence of the untrimmed target replaced by the trimmed target.
C11_FirstOccurrenceOnly ==
    LinkReported =>
        Unwrap(stdout[1].diagnostic).notes =
            <<RepairNote(TheLink,
                         FirstReplaced(TheLink, Unwrap(link_target),
                                       Trim(Unwrap(link_target))))>>

\* C11 as amended: the note of a whitespace-in-link warning reads "Try replacing
\* <link> with <suggested>", where suggested is the link with every occurrence
\* of the untrimmed target replaced by the trimmed target.
C11_EveryOccurrence ==
    LinkReported =>
        Unwrap(stdout[1].diagnostic).notes =
            <<RepairNote(TheLink,
                         EveryReplaced(TheLink, Unwrap(link_target),
                                       Trim(Unwrap(link_target))))>>

\* the note was written for a link that holds its untrimmed target twice
C11_Witness ==
    /\ LinkReported
    /\ Unwrap(link_target) # Trim(Unwrap(link_target))
    /\ FirstReplaced(TheLink, Unwrap(link_target), <<>>)
           # EveryReplaced(TheLink, Unwrap(link_target), <<>>)

(* C12 *)

\* report has just run on a dead-link warning (the latest issue reported)
DeadLinkReported ==
    /\ ~config.compact
    /\ io_errors = 0
    /\ idx > 1
    /\ issues[idx - 1].tag = "Warning"
    /\ issues[idx - 1].warning.name = "DeadLink"

\* the passage names that score above 0.8 against t
NearMisses(t) ==
    IF story_result.tag = "Ok"
    THEN {n \in {story_result.passages[i] : i \in 1..Len(story_result.passages)} :
             jaro_winkler(t, n) > 800}
    ELSE {}

\* C12: for a dead link on t a suggestion is produced iff the parse succeeded
\* and some passage name scores strictly above 0.8 against t (exactly 0.8 does
\* not count); it reads Found passage with similar name: "<candidate>" and its
\* candidate has the highest score of the names above the threshold.
C12_NearMiss ==
    DeadLinkReported =>
        LET t == issues[idx - 1].warning.dead
        IN /\ report_help # None <=> (story_result.tag = "Ok" /\ NearMisses(t) # {})
           /\ report_help # None =>
                 /\ Unwrap(report_help).text = "Found passage with similar name"
                 /\ Unwrap(report_help).name \in NearMisses(t)
                 /\ \A n \in NearMisses(t) :
                       jaro_winkler(t, n) <= jaro_winkler(t, Unwrap(report_help).name)

\* a suggestion was produced where two names tie for the highest score and a
\* third scores exactly 0.8
C12_Witness ==
    /\ DeadLinkReported
    /\ report_help # None
    /\ story_result.tag = "Ok"
    /\ \E i, j, k \in 1..Len(story_result.passages) :
          /\ story_result.passages[i] = "Strat"
          /\ story_result.passages[j] = "Stort"
          /\ story_result.passages[k] = "at"

(* C13 *)

\* the last operation done on the stream was a flush
Flushed == stdout # <<>> /\ stdout[Len(stdout)].op = "flush"

\* C13: whenever lint has returned to its caller, also after an I/O failure,
\* the stream's color state is reset and the stream has been flushed.
C13_ResetAndFlushed == pc = "done" => color = "Reset" /\ Flushed

(* C14 *)

\* an issue's line or diagnostic: what completes the rendering of one issue
IsRendering(event) == event.op \in {"writeln", "emit"}

\* C14: the first I/O failure while rendering is returned to lint's caller at
\* once: lint is done with Err(io), not with the Story nor with "Failed due to
\* previous errors", no operation fails a second time (no retry), and only the
\* issues before the one being written have been rendered.
C14_FirstFailureReturned ==
    /\ io_errors <= 1
    /\ io_errors = 1 <=> ret = "Err(io)"
    /\ io_errors = 1 =>
          /\ pc = "done"
          /\ Count(stdout, IsRendering) = idx - 1

\* a write failed in the middle of an issue's line while another issue waited
C14_Witness ==
    /\ io_errors = 1
    /\ pc = "done"
    /\ idx < Len(issues)
    /\ stdout # <<>>
    /\ stdout[Len(stdout)].op = "set_color"

(* C15 *)

Opposite(ordering) ==
    IF ordering = "Less" THEN "Greater"
    ELSE IF ordering = "Greater" THEN "Less"
    ELSE "Equal"

\* both issues lack a context, or both have a context without a file name
LackAlike(a, b) ==
    \/ ~HasContext(a) /\ ~HasContext(b)
    \/ /\ HasContext(a) /\ ~HasFileName(a)
       /\ HasContext(b) /\ ~HasFileName(b)

\* C16: the comparator returns Less in both argument orders for two issues that
\* both have no context and for two issues whose contexts both have no file
\* name; for every other pair the two orders give opposite results or both
\* Equal.
C16_NotAntisymmetric ==
    (call.fn = "compare" /\ call.returned # None) =>
        LET forth == Unwrap(call.returned)[1]
            back == Unwrap(call.returned)[2]
        IN IF LackAlike(call.left, call.right)
           THEN forth = "Less" /\ back = "Less"
           ELSE forth = Opposite(back)

\* the comparator was called, in both orders, on a parse error and a warning
\* that both have no context
C16_Witness ==
    /\ call.fn = "compare"
    /\ call.returned = Some(<<"Less", "Less">>)
    /\ call.left.tag = "Error"
    /\ call.right.tag = "Warning"
    /\ ~HasContext(call.left)
    /\ ~HasContext(call.right)

(* C17 *)

\* the rich loop has just emitted the diagnostic of issues[idx - 1]
JustEmitted == ~config.compact /\ pc # "lint" /\ io_errors = 0 /\ idx > 1

\* the notes of the diagnostic emitted for issues[idx - 1]
EmittedNotes == Unwrap(stdout[Preamble + idx - 1].diagnostic).notes

HasSuggestionKind(issue) ==
    IsWarningIssue(issue) /\ issue.warning.name \in {"DeadLink", "WhitespaceInLink"}

\* C17: in rich mode the diagnostic emitted for an issue carries the note the
\* suggestion engine produced for it, whenever it produced one; an issue of
\* another kind, and every parse error, carries no note.
C17_NoteCarried ==
    JustEmitted =>
        /\ report_help # None => EmittedNotes = <<Unwrap(report_help)>>
        /\ ~HasSuggestionKind(issues[idx - 1]) => EmittedNotes = <<>>

(* C18 *)

KindOf(issue) == IF IsErrorIssue(issue) THEN issue.error.name ELSE issue.warning.name

\* C18: in rich mode an issue whose primary context is None, has no file name
\* or names a file the code map does not resolve is emitted as one diagnostic
\* with its message and code and nothing else (no label, no note); emitting it
\* is no error: lint goes on to the next issue.
C18_Unresolved ==
    \A n \in 1..Len(issues) :
        (~config.compact /\ pc # "lint" /\ n < idx /\ ~Resolves(issues[n])) =>
            LET emitted == stdout[Preamble + n]
            IN /\ emitted.op = "emit"
               /\ Unwrap(emitted.diagnostic).message = <<"Display", KindOf(issues[n])>>
               /\ Unwrap(emitted.diagnostic).code = KindOf(issues[n])
               /\ Unwrap(emitted.diagnostic).labels = <<>>
               /\ Unwrap(emitted.diagnostic).notes = <<>>
               /\ ret # "panic"

\* a rich run went through to its result with an issue without a context, one
\* without a file name and one whose file the code map does not hold
C18_Witness ==
    /\ ~config.compact
    /\ pc = "done"
    /\ io_errors = 0
    /\ \E i, j, k \in 1..Len(issues) :
          /\ ~HasContext(issues[i])
          /\ HasContext(issues[j]) /\ ~HasFileName(issues[j])
          /\ HasFileName(issues[k]) /\ ~Resolves(issues[k])

(* C19 *)

\* the issue is a warning whose referent names a file of the code map
ReferentResolves(issue) ==
    /\ IsWarningIssue(issue)
    /\ issue.warning.referent # None
    /\ Unwrap(issue.warning.referent).file_name # None
    /\ Contains(story_result.code_map, Unwrap(Unwrap(issue.warning.referent).file_name))

LabelsOf(event, style) ==
    SelectSeq(Unwrap(event.diagnostic).labels, LAMBDA l : l.style = style)

\* C19: in rich mode a diagnostic has a secondary label, with the message
\* "Previously defined here. Duplicate discarded.", iff the issue is a warning
\* whose primary context and whose referent both resolve to a file id; a
\* referent is ignored when the primary context does not resolve, and no
\* diagnostic has a secondary label without a primary one.
C19_SecondaryLabel ==
    \A n \in 1..Len(issues) :
        (~config.compact /\ pc # "lint" /\ n < idx) =>
            LET emitted == stdout[Preamble + n]
                secondary == LabelsOf(emitted, "secondary")
            IN /\ secondary # <<>> <=>
                     (Resolves(issues[n]) /\ ReferentResolves(issues[n]))
               /\ secondary # <<>> =>
                     /\ Len(secondary) = 1
                     /\ secondary[1].message
                            = "Previously defined here. Duplicate discarded."
                     /\ LabelsOf(emitted, "primary") # <<>>

\* a rich run emitted a diagnostic with both labels, one for a warning whose
\* referent resolves while its primary context is None, and one for a warning
\* whose primary context resolves while its referent does not
C19_Witness ==
    /\ ~config.compact
    /\ pc # "lint"
    /\ \E i, j \in 1..Len(issues) :
          /\ i < idx /\ j < idx
          /\ Resolves(issues[i]) /\ ReferentResolves(issues[i])
          /\ ~Resolves(issues[j]) /\ ReferentResolves(issues[j])

(* C20 *)

LineIndexReturned == call.fn = "line_index" /\ call.returned # None

KnownFile == call.id \in 1..Len(call.lines)

\* line number `line` (from 0) of the file starts at or before the offset, and
\* the next line, if there is one, starts after it
IsLineOf(line, starts, offset) ==
    /\ line \in 0..(Len(starts) - 1)
    /\ starts[line + 1] <= offset
    /\ line + 2 <= Len(starts) => offset < starts[line + 2]

\* C20: for every byte offset of a known file line_index returns the index of
\* the line start equal to the offset when there is one, and otherwise the
\* index of the line before (the insertion index minus one); the subtraction
\* does not underflow, and the result is None only for a file id without line
\* starts.
C20_LineIndex ==
    LineIndexReturned =>
        LET outcome == Unwrap(call.returned)
        IN /\ ~outcome.panicked
           /\ outcome.value = None <=> ~KnownFile
           /\ KnownFile =>
                 /\ IsLineOf(Unwrap(outcome.value), call.lines[call.id], call.byte_index)
                 /\ \A k \in 1..Len(call.lines[call.id]) :
                       call.lines[call.id][k] = call.byte_index
                           => Unwrap(outcome.value) = k - 1

\* line_index returned the line before for an offset that lies between two
\* line starts, neither the first line nor the last
C20_Witness ==
    /\ LineIndexReturned
    /\ KnownFile
    /\ \A k \in 1..Len(call.lines[call.id]) : call.lines[call.id][k] # call.byte_index
    /\ Unwrap(call.returned).value # None
    /\ Unwrap(Unwrap(call.returned).value) > 0
    /\ Unwrap(Unwrap(call.returned).value) + 1 < Len(call.lines[call.id])

(* C21 *)

IsFlush(event) == event.op = "flush"

\* the four operations of the line of issue n in compact mode: the color is set,
\* the label written, the color reset, then the message text written
LabelThenReset(n) ==
    LET at == Preamble + 4 * (n - 1)
    IN /\ stdout[at + 1].op = "set_color"
       /\ stdout[at + 2].op = "write"
       /\ stdout[at + 3].op = "reset"
       /\ stdout[at + 4].op = "writeln"

\* C21: when lint has returned after a render pass without a write failure,
\* each issue's label was written between a set color and a reset that comes
\* before the message text, exactly one flush was done, after the last issue,
\* and the stream's color state is reset, also for an empty issue list.
C21_ColorDiscipline ==
    (pc = "done" /\ io_errors = 0) =>
        /\ config.compact => \A n \in 1..Len(issues) : LabelThenReset(n)
        /\ Count(stdout, IsFlush) = 1
        /\ IsFlush(stdout[Len(stdout)])
        /\ color = "Reset"

(* C22 *)

\* the rendering of issue n is in its place on the stream: the line of the
\* issue in compact mode, the diagnostic of its kind and severity in rich mode
RenderedInPlace(n) ==
    IF config.compact
    THEN /\ Len(stdout) >= Preamble + 4 * n
         /\ stdout[Preamble + 4 * n] = WriteLine(issues[n])
    ELSE /\ Len(stdout) >= Preamble + n
         /\ stdout[Preamble + n].op = "emit"
         /\ Unwrap(stdout[Preamble + n].diagnostic).code = KindOf(issues[n])
         /\ Unwrap(stdout[Preamble + n].diagnostic).severity = ExpectedSeverity(issues[n])

\* the issues up to idx - 1 are rendered, in the order of the list, and nothing
\* else is; after a pass without a failed write that is the whole list
RenderedInOrder ==
    pc # "lint" =>
        /\ \A n \in 1..Len(issues) : n < idx => RenderedInPlace(n)
        /\ Count(stdout, IsRendering) = idx - 1
        /\ Rendered => idx = Len(issues) + 1

\* what filter_and_sort_issues returned and the policy stay as they are
ListKept == pc # "lint" => issues' = issues /\ is_err' = is_err /\ config' = config

\* C22: once filter_and_sort_issues has returned, rendering in either mode
\* emits the issues in the returned order, skipping and adding none, also when
\* is_err is set, and changes neither the list, nor a denied flag, nor the
\* policy.
C22_ListIsFinal == []RenderedInOrder /\ [][ListKept]_vars

\* a failing run rendered a parse error and, after it or before it, a warning
\* that is not denied
C22_Witness ==
    /\ Rendered
    /\ is_err
    /\ idx = Len(issues) + 1
    /\ \E i, j \in 1..Len(issues) :
          /\ IsErrorIssue(issues[i])
          /\ IsWarningIssue(issues[j]) /\ ~issues[j].denied

(* C23 *)

\* the warnings the allow policy lets through, each with its denied flag, and
\* then the parse errors: what the list is made of, in the order of the inputs
ExpectedIssues ==
    LET kept == SelectSeq(warnings, LAMBDA w : ~Suppressed(w.name))
        errors == IF story_result.tag = "Err" THEN story_result.errors ELSE <<>>
    IN [i \in 1..Len(kept) |-> IssueWarning(kept[i], Promoted(kept[i].name))]
       \o [i \in 1..Len(errors) |-> IssueError(errors[i])]

Occurrences(list, x) == Cardinality({i \in 1..Len(list) : list[i] = x})

====
